---- MODULE Spec2Model ----
(***************************************************************************)
(* middlewarer: a generator that reads a Go interface and emits a wrapper  *)
(* type whose methods can be intercepted one by one.                       *)
(*                                                                         *)
(* The module holds two state machines over one set of variables:          *)
(*   Spec    one run of the command (main, Generator.init,                 *)
(*           generateWrapperCode, print, the goimports subprocess);        *)
(*   RtSpec  the execution of the generated code (Wrap<I>, the wrapper's   *)
(*           methods), read off the text the generator emits.              *)
(*                                                                         *)
(* Text is modelled as a sequence of lines, a line as a sequence of        *)
(* lexical tokens (Go strings); identifiers and rendered types are single  *)
(* tokens, built by string concatenation the way fmt.Sprintf builds them.  *)
(***************************************************************************)
EXTENDS Integers, Sequences, FiniteSets, TLC

\* ------------------------------------------------------------- bounds
MaxMethods == 2     \* methods declared by a contract
MaxParams  == 2     \* parameters of a method
MaxResults == 2     \* results of a method

\* ------------------------------------------------------- go/types data
\* A package: its import path and its short name.
InvokingPkg == [path |-> "example.com/app", name |-> "app"]
IoPkg       == [path |-> "io", name |-> "io"]
TwinPkg     == [path |-> "other.org/app", name |-> "app"]
StorePkg    == [path |-> "example.com/lib/store", name |-> "store"]
NoPkg       == [path |-> "", name |-> ""]

\* Type constructors (types.Basic, types.Named, types.Pointer, types.Slice).
Basic(n)          == [k |-> "basic", name |-> n, pkg |-> NoPkg, args |-> <<>>]
Named(p, n, args) == [k |-> "named", name |-> n, pkg |-> p, args |-> args]
Pointer(t)        == [k |-> "ptr", name |-> "", pkg |-> NoPkg, args |-> <<t>>]
Slice(t)          == [k |-> "slice", name |-> "", pkg |-> NoPkg, args |-> <<t>>]

\* The types a method signature of the model draws from.
TypePool ==
    << Basic("int"),
       Named(InvokingPkg, "Baz", <<>>),
       Named(IoPkg, "Reader", <<>>),
       Pointer(Named(TwinPkg, "Quz", <<>>)),
       Slice(Pointer(Named(InvokingPkg, "Baz", <<>>))),
       Named(StorePkg, "Set", <<Named(InvokingPkg, "Baz", <<>>), Named(IoPkg, "Reader", <<>>)>>) >>

PoolSize == Len(TypePool)
PoolAt(n) == TypePool[(n % PoolSize) + 1]

\* ----------------------------------------------------- string helpers
\* strings.Join(elems, sep) on a sequence of strings, as a token sequence.
RECURSIVE Join(_, _)
Join(elems, sep) ==
    IF Len(elems) = 0 THEN <<>>
    ELSE IF Len(elems) = 1 THEN <<elems[1]>>
    ELSE <<elems[1], sep>> \o Join(Tail(elems), sep)

\* Join, but as one string.
RECURSIVE JoinStr(_, _)
JoinStr(elems, sep) ==
    IF Len(elems) = 0 THEN ""
    ELSE IF Len(elems) = 1 THEN elems[1]
    ELSE elems[1] \o sep \o JoinStr(Tail(elems), sep)

\* strings.TrimSuffix(s, suffix) where the suffix is one token.
TrimSuffix(toks, suffix) ==
    IF Len(toks) > 0 /\ toks[Len(toks)] = suffix
    THEN SubSeq(toks, 1, Len(toks) - 1)
    ELSE toks

\* strings.ToLower on the names the model uses.
ToLower(s) ==
    CASE s = "Foo" -> "foo"
      [] s = "F"   -> "f"
      [] OTHER     -> s

\* s[0:1] on the names the model uses.
FirstByte(s) ==
    CASE s = "Foo" -> "F"
      [] OTHER     -> s

\* ------------------------------------------------ typeStringQuantifier
\* Generator.typeStringQuantifier: the qualifier handed to go/types.
\* (variant: the packages compared by short name instead of by path)
typeStringQuantifier_ByName(gp, p) ==
    IF p.name = gp.name THEN "" ELSE p.name

typeStringQuantifier(gp, p) ==
    IF p.path = gp.path THEN "" ELSE p.name

\* types.TypeString(t, qf): go/types renders a named type as the qualifier's
\* answer, a dot when that answer is not empty, the type's name and its type
\* arguments; the constituents of a composite type are rendered the same way.
RECURSIVE TypeString(_, _)
TypeString(gp, t) ==
    CASE t.k = "basic" -> t.name
      [] t.k = "ptr"   -> "*" \o TypeString(gp, t.args[1])
      [] t.k = "slice" -> "[]" \o TypeString(gp, t.args[1])
      [] t.k = "named" ->
            LET q == typeStringQuantifier(gp, t.pkg)
                head == IF q = "" THEN t.name ELSE q \o "." \o t.name
            IN IF Len(t.args) = 0 THEN head
               ELSE head \o "["
                    \o JoinStr([i \in 1..Len(t.args) |-> TypeString(gp, t.args[i])], ",")
                    \o "]"

\* ------------------------------------------------ methods and contracts
\* The method names of the model, in the order Go's string comparison gives.
MethodNames == <<"Bar", "Init", "Request">>

\* a < b on two method names (Go's comparison of strings).
NameLess(a, b) ==
    \E i, j \in 1..Len(MethodNames) :
        /\ MethodNames[i] = a
        /\ MethodNames[j] = b
        /\ i < j

\* The signature shapes of the model: shape n has k parameters and r results,
\* its types taken from the pool starting at `seed`; it may be variadic (its
\* last parameter then is a slice) and may name its parameters and results.
NumShapes == (MaxParams + 1) * (MaxResults + 1) * PoolSize * 4

ShapeAt(n) ==
    LET k     == n % (MaxParams + 1)
        n1    == n \div (MaxParams + 1)
        r     == n1 % (MaxResults + 1)
        n2    == n1 \div (MaxResults + 1)
        seed  == n2 % PoolSize
        n3    == n2 \div PoolSize
        vari  == (n3 % 2 = 1) /\ k >= 1
        named == (n3 \div 2) % 2 = 1
    IN [ params   |-> [i \in 1..k |->
                         [name |-> IF named THEN "x" \o ToString(i - 1) ELSE "",
                          type |-> IF vari /\ i = k
                                   THEN Slice(PoolAt(seed + i - 1))
                                   ELSE PoolAt(seed + i - 1)]],
         results  |-> [j \in 1..r |->
                         [name |-> IF named THEN "r" \o ToString(j - 1) ELSE "",
                          type |-> PoolAt(seed + k + j - 1)]],
         variadic |-> vari ]

\* A method (types.Func): its name and its signature (types.Signature).
MakeMethod(name, sig) == [name |-> name, sig |-> sig]

\* Sequences of distinct method names of length n, in every order.
RECURSIVE NameLists(_)
NameLists(n) ==
    IF n = 0 THEN {<<>>}
    ELSE { Append(l, m) : l \in NameLists(n - 1),
                          m \in {MethodNames[i] : i \in 1..Len(MethodNames)} }

DistinctNameLists ==
    { l \in UNION { NameLists(n) : n \in 0..MaxMethods } :
        \A i, j \in 1..Len(l) : i # j => l[i] # l[j] }

\* An interface (types.Interface): the methods in the order the source
\* declares them, and what its type set is restricted by: "none", "terms"
\* (a union of type terms such as ~int | ~string) or "comparable".
MakeInterface(names, s, constraint) ==
    [ methods    |-> [i \in 1..Len(names) |->
                        MakeMethod(names[i], ShapeAt((s + i - 1) % NumShapes))],
      constraint |-> constraint ]

Interfaces ==
    { MakeInterface(names, s, "none") :
        names \in DistinctNameLists, s \in 0..(NumShapes - 1) }
    \cup { MakeInterface(names, 0, c) :
        names \in { l \in DistinctNameLists : Len(l) <= 1 },
        c \in {"terms", "comparable"} }

\* go/types keeps the method set of an interface sorted by method id, which
\* for an exported method is its name.
RECURSIVE InsertById(_, _)
InsertById(m, sorted) ==
    IF Len(sorted) = 0 THEN <<m>>
    ELSE IF NameLess(m.name, sorted[1].name) THEN <<m>> \o sorted
    ELSE <<sorted[1]>> \o InsertById(m, Tail(sorted))

RECURSIVE SortById(_)
SortById(ms) ==
    IF Len(ms) = 0 THEN <<>>
    ELSE InsertById(ms[1], SortById(Tail(ms)))

\* (*types.Interface).NumMethods
NumMethods(iface) == Len(iface.methods)

\* (*types.Interface).Method(i), i from 0
\* (variant: the explicitly declared methods in source order, as ExplicitMethod)
Method_Declared(iface, i) == iface.methods[i + 1]

Method(iface, i) == SortById(iface.methods)[i + 1]

\* (*types.Interface).Empty: whether the type set is all types, that is no
\* method, no type term and no comparable.
Empty(iface) ==
    /\ Len(iface.methods) = 0
    /\ iface.constraint = "none"

\* ------------------------------------------------------ WriteSignature
\* One tuple of types.WriteSignature: each variable's name when it has one,
\* then its type; the last parameter of a variadic signature as ...T.
RECURSIVE ConcatAll(_)
ConcatAll(ss) ==
    IF Len(ss) = 0 THEN <<>> ELSE ss[1] \o ConcatAll(Tail(ss))

WriteTuple(gp, vars, variadic) ==
    TrimSuffix(
        ConcatAll([i \in 1..Len(vars) |->
            (IF vars[i].name = "" THEN <<>> ELSE <<vars[i].name>>)
            \o <<IF variadic /\ i = Len(vars)
                 THEN "..." \o TypeString(gp, vars[i].type.args[1])
                 ELSE TypeString(gp, vars[i].type)>>
            \o <<", ">>]),
        ", ")

\* types.WriteSignature(buf, sig, qf)
WriteSignature(gp, sig) ==
    <<"(">> \o WriteTuple(gp, sig.params, sig.variadic) \o <<")">>
    \o (IF Len(sig.results) = 0 THEN <<>>
        ELSE IF Len(sig.results) = 1 /\ sig.results[1].name = ""
             THEN <<TypeString(gp, sig.results[1].type)>>
        ELSE <<"(">> \o WriteTuple(gp, sig.results, FALSE) \o <<")">>)

\* ------------------------------------------------------ format strings
\* wrapFunctionFormat with [1] the interface name, [2] the struct name.
wrapFunctionFormat(a1, a2) ==
    << <<"//", "Wrap" \o a1, "returns", "the", "passed", a1, "wrapped", "in",
         "the", "middleware", "defined", "in", a2>>,
       <<"func", "Wrap" \o a1, "(", "toWrap", a1, ", ", "wrapper", a2, ")", a1, "{">>,
       <<"wrapper", ".", "wrapped", "=", "toWrap">>,
       <<"return", "&", "wrapper">>,
       <<"}">> >>

\* interfaceMethodFormatReturn with [1] the receiver, [2] the receiver type,
\* [3] the method name, [4] the parameters, [5] the return type, [6] the
\* arguments.
interfaceMethodFormatReturn(a1, a2, a3, a4, a5, a6) ==
    << <<"func", "(", a1, "*", a2, ")", a3, "(">> \o a4 \o <<")">> \o a5 \o <<"{">>,
       <<"fun", ":=", a1, ".", "wrapped", ".", a3>>,
       <<"if", a1, ".", a3 \o "Middleware", "!=", "nil", "{">>,
       <<"fun", "=", a1, ".", a3 \o "Middleware", "(", "fun", ")">>,
       <<"}">>,
       <<"return", "fun", "(">> \o a6 \o <<")">>,
       <<"}">>,
       <<>> >>

\* interfaceMethodFormatVoid with [1] the receiver, [2] the receiver type,
\* [3] the method name, [4] the parameters, [5] the arguments.
interfaceMethodFormatVoid(a1, a2, a3, a4, a5) ==
    << <<"func", "(", a1, "*", a2, ")", a3, "(">> \o a4 \o <<")">> \o <<"{">>,
       <<"fun", ":=", a1, ".", "wrapped", ".", a3>>,
       <<"if", a1, ".", a3 \o "Middleware", "!=", "nil", "{">>,
       <<"fun", "=", a1, ".", a3 \o "Middleware", "(", "fun", ")">>,
       <<"}">>,
       <<"fun", "(">> \o a5 \o <<")">>,
       <<"}">>,
       <<>> >>

\* The number of lines either method format emits.
MethodFormatLines == Len(interfaceMethodFormatVoid("", "", "", <<>>, <<>>))

\* ------------------------------------------- generateMiddlewareMethod
\* The parameters list: "a%d %s, " per parameter, the last ", " trimmed.
ParametersOf(gp, sig) ==
    TrimSuffix(
        ConcatAll([i \in 1..Len(sig.params) |->
            <<"a" \o ToString(i - 1), TypeString(gp, sig.params[i].type), ", ">>]),
        ", ")

\* The arguments list: "a%d, " per parameter, the last ", " trimmed.
\* (variant: the trailing ", " left in place)
ArgumentsOf_Untrimmed(sig) ==
    ConcatAll([i \in 1..Len(sig.params) |-> <<"a" \o ToString(i - 1), ", ">>])

\* (variant: the arguments numbered from the last parameter down)
ArgumentsOf_Reversed(sig) ==
    TrimSuffix(
        ConcatAll([i \in 1..Len(sig.params) |->
            <<"a" \o ToString(Len(sig.params) - i), ", ">>]),
        ", ")

ArgumentsOf(sig) ==
    TrimSuffix(
        ConcatAll([i \in 1..Len(sig.params) |-> <<"a" \o ToString(i - 1), ", ">>]),
        ", ")

\* The return type of a method with results: the rendered types joined by
\* ", ", in parentheses unless there is exactly one.
\* (variant: the parentheses forgotten)
ReturnTypeOf_NoParens(gp, sig) ==
    Join([i \in 1..Len(sig.results) |-> TypeString(gp, sig.results[i].type)], ", ")

ReturnTypeOf(gp, sig) ==
    LET returnTypes == [i \in 1..Len(sig.results) |->
                           TypeString(gp, sig.results[i].type)]
        returnType  == Join(returnTypes, ", ")
    IN IF Len(sig.results) # 1
       THEN <<"(">> \o returnType \o <<")">>
       ELSE returnType

\* Generator.generateMiddlewareMethod: the lines written to interfaceMethods.
\* (variant: the void format used for every method)
generateMiddlewareMethod_AlwaysVoid(gen, fun) ==
    interfaceMethodFormatVoid(gen.targetFirstLetter, gen.structName, fun.name,
        ParametersOf(gen.p, fun.sig), ArgumentsOf(fun.sig))

generateMiddlewareMethod(gen, fun) ==
    LET methodSignature == fun.sig
        parameters == ParametersOf(gen.p, methodSignature)
        arguments  == ArgumentsOf(methodSignature)
    IN IF Len(methodSignature.results) = 0
       THEN interfaceMethodFormatVoid(gen.targetFirstLetter, gen.structName,
                fun.name, parameters, arguments)
       ELSE interfaceMethodFormatReturn(gen.targetFirstLetter, gen.structName,
                fun.name, parameters, ReturnTypeOf(gen.p, methodSignature),
                arguments)

\* The handler type line of generateInterfaceMethods: "type %s func%s\n".
HandlerTypeLine(gen, fun) ==
    <<"type", fun.name \o "Handler", "func">> \o WriteSignature(gen.p, fun.sig)

\* The struct field line of generateInterfaceMethods: "\t%s func(%[2]s) %[2]s\n".
\* (variant: the field named after the handler type)
StructFieldLine_HandlerName(fun) ==
    LET handlerTypeName == fun.name \o "Handler"
    IN <<handlerTypeName, "func", "(", handlerTypeName, ")", handlerTypeName>>

StructFieldLine(fun) ==
    LET handlerTypeName == fun.name \o "Handler"
        structFieldName == fun.name \o "Middleware"
    IN <<structFieldName, "func", "(", handlerTypeName, ")", handlerTypeName>>

\* =====================================================================
\* The command: main and the Generator
\* =====================================================================
VARIABLES
    pc,          \* where main stands
    flags,       \* the parsed flags: typeName, output, debug
    fs,          \* the file system: file name -> "absent", "old", "truncated", "written"
    destWriter,  \* "nil", "stdout" or the name of the opened output file
    written,     \* what was printed to destWriter
    exitCode,    \* -1 while the process runs, then its exit status
    diag,        \* the diagnostic the run ended with
    g,           \* the Generator
    idx,         \* the loop variable i of generateInterfaceMethods
    cmd          \* the goimports subprocess: its stdin and stdout buffers

genVars == <<pc, flags, fs, destWriter, written, exitCode, diag, g, idx, cmd>>

TargetName == "Foo"
OutputFlag == "out.go"
Files == {ToLower(TargetName) \o "_middleware.go", OutputFlag}

\* A nil *types.Interface.
NilInterface == [methods |-> <<>>, constraint |-> "nil"]

\* Generator{}
ZeroGenerator ==
    [ p |-> NoPkg, target |-> NilInterface, targetName |-> "",
      targetFirstLetter |-> "", structName |-> "",
      wrapFunction |-> <<>>, middlewareStruct |-> <<>>,
      handlerFuncTypes |-> <<>>, interfaceMethods |-> <<>> ]

\* os.Args[1:] of the run.
Args(f) ==
    <<"-type=" \o f.typeName>>
    \o (IF f.output # "" THEN <<"-output=" \o f.output>> ELSE <<>>)
    \o (IF f.debug THEN <<"-d">> ELSE <<>>)

GenInit ==
    /\ pc = "main"
    /\ flags \in [typeName : {"", TargetName}, output : {"", OutputFlag}, debug : BOOLEAN]
    /\ \E st \in {"absent", "old"} : fs = [f \in Files |-> st]
    /\ destWriter = "nil"
    /\ written = <<>>
    /\ exitCode = -1
    /\ diag = ""
    /\ g = ZeroGenerator
    /\ idx = 0
    /\ cmd = [stdin |-> <<>>, stdout |-> <<>>]

\* log.Fatalf and log.Printf followed by os.Exit(1): the process ends at once,
\* no deferred call runs.
Fatal(msg) ==
    /\ pc' = "exited"
    /\ exitCode' = 1
    /\ diag' = msg

\* main, lines 557-562: the type name is required.
CheckFlags ==
    /\ pc = "main"
    /\ IF flags.typeName = ""
       THEN Fatal("no type name supplied")
       ELSE /\ pc' = "open"
            /\ UNCHANGED <<exitCode, diag>>
    /\ UNCHANGED <<flags, fs, destWriter, written, g, idx, cmd>>

\* main, lines 564-584: the destination is chosen, and unless -d is given the
\* output file is opened with O_CREATE|O_WRONLY|O_TRUNC.
OpenDest ==
    /\ pc = "open"
    /\ IF flags.debug
       THEN /\ destWriter' = "stdout"
            /\ pc' = "init"
            /\ UNCHANGED <<fs, exitCode, diag>>
       ELSE LET outFileName == IF flags.output # ""
                               THEN flags.output
                               ELSE ToLower(flags.typeName) \o "_middleware.go"
            IN \E ok \in BOOLEAN :
                 IF ok
                 THEN /\ fs' = [fs EXCEPT ![outFileName] = "truncated"]
                      /\ destWriter' = outFileName
                      /\ pc' = "init"
                      /\ UNCHANGED <<exitCode, diag>>
                 ELSE /\ Fatal("Couldn't open output file")
                      /\ UNCHANGED <<fs, destWriter>>
    /\ UNCHANGED <<flags, written, g, idx, cmd>>

\* Generator.init, lines 644-660: the package of the current directory is
\* loaded; the load may fail or yield a number of packages other than one.
LoadPackages ==
    /\ pc = "init"
    /\ \E err \in BOOLEAN, n \in 0..2 :
         IF err
         THEN Fatal("Failed to load packages") /\ UNCHANGED g
         ELSE IF n # 1
         THEN Fatal("Loaded package length is not 1") /\ UNCHANGED g
         ELSE /\ g' = [g EXCEPT !.targetName = flags.typeName, !.p = InvokingPkg]
              /\ pc' = "lookup"
              /\ UNCHANGED <<exitCode, diag>>
    /\ UNCHANGED <<flags, fs, destWriter, written, idx, cmd>>

\* Generator.init, lines 663-677: the target is looked up in the package's
\* scope; it must be there, be an interface and not be the empty interface.
LookupTarget ==
    /\ pc = "lookup"
    /\ \E kind \in {"nil", "notInterface", "interface"}, iFace \in Interfaces :
         IF kind = "nil"
         THEN Fatal("Couldn't find target object") /\ UNCHANGED g
         ELSE IF kind = "notInterface"
         THEN Fatal("Provided target object is not an interface") /\ UNCHANGED g
         ELSE IF Empty(iFace)
         THEN Fatal("Trying to generate middlewarer for an empty interface")
              /\ UNCHANGED g
         ELSE /\ g' = [g EXCEPT !.target = iFace]
              /\ pc' = "generate"
              /\ UNCHANGED <<exitCode, diag>>
    /\ UNCHANGED <<flags, fs, destWriter, written, idx, cmd>>

\* Generator.generateWrapperCode, lines 694-709: the buffers, the names, the
\* wrap function and the head of the struct.
generateHead(gen) ==
    LET structName == gen.targetName \o "Middleware"
    IN [gen EXCEPT
          !.structName = structName,
          !.targetFirstLetter = ToLower(FirstByte(gen.targetName)),
          !.wrapFunction = wrapFunctionFormat(gen.targetName, structName),
          !.middlewareStruct =
              << <<"//", structName, "implements", gen.targetName>>,
                 <<"type", structName, "struct", "{">>,
                 <<"wrapped", gen.targetName>>,
                 <<>> >>,
          !.handlerFuncTypes = <<>>,
          !.interfaceMethods = <<>>]

\* Generator.generateInterfaceMethods, lines 760-774: the body of the loop for
\* method i.
generateInterfaceMethod(gen, i) ==
    LET fun == Method(gen.target, i)
    IN [gen EXCEPT
          !.handlerFuncTypes = Append(@, HandlerTypeLine(gen, fun)),
          !.middlewareStruct = Append(@, StructFieldLine(fun)),
          !.interfaceMethods = @ \o generateMiddlewareMethod(gen, fun)]

\* Generator.generateWrapperCode, line 714: the foot of the struct.
generateFoot(gen) ==
    [gen EXCEPT !.middlewareStruct = Append(@, <<"}">>)]

\* Generator.generateInterfaceMethods, the whole loop from method i on.
RECURSIVE generateInterfaceMethods(_, _)
generateInterfaceMethods(gen, i) ==
    IF i < NumMethods(gen.target)
    THEN generateInterfaceMethods(generateInterfaceMethod(gen, i), i + 1)
    ELSE gen

\* Generator.generateWrapperCode as a whole.
generateWrapperCode(gen) ==
    generateFoot(generateInterfaceMethods(generateHead(gen), 0))

GenerateHead ==
    /\ pc = "generate"
    /\ g' = generateHead(g)
    /\ idx' = 0
    /\ pc' = "methods"
    /\ UNCHANGED <<flags, fs, destWriter, written, exitCode, diag, cmd>>

\* One turn of the loop of generateInterfaceMethods.
GenerateInterfaceMethod ==
    /\ pc = "methods"
    /\ idx < NumMethods(g.target)
    /\ g' = generateInterfaceMethod(g, idx)
    /\ idx' = idx + 1
    /\ UNCHANGED <<pc, flags, fs, destWriter, written, exitCode, diag, cmd>>

\* The loop is over: the struct is closed and generateWrapperCode returns.
GenerateFoot ==
    /\ pc = "methods"
    /\ ~(idx < NumMethods(g.target))
    /\ g' = generateFoot(g)
    /\ pc' = "print"
    /\ UNCHANGED <<flags, fs, destWriter, written, exitCode, diag, idx, cmd>>

\* (variant: the handler aliases written before the struct)
PrintLines_AliasesFirst(gen, f) ==
    << <<"//", "Code generated by", "\"middlewarer " \o JoinStr(Args(f), " ") \o "\";",
         "DO NOT EDIT.">>,
       <<"package", gen.p.name>>,
       <<>> >>
    \o gen.wrapFunction \o << <<>> >>
    \o gen.handlerFuncTypes \o << <<>> >>
    \o gen.middlewareStruct \o << <<>> >>
    \o gen.interfaceMethods \o << <<>> >>

\* Generator.print, lines 827-842, called with the formatter's stdin.
PrintLines(gen, f) ==
    << <<"//", "Code generated by", "\"middlewarer " \o JoinStr(Args(f), " ") \o "\";",
         "DO NOT EDIT.">>,
       <<"package", gen.p.name>>,
       <<>> >>
    \o gen.wrapFunction \o << <<>> >>
    \o gen.middlewareStruct \o << <<>> >>
    \o gen.handlerFuncTypes \o << <<>> >>
    \o gen.interfaceMethods \o << <<>> >>

PrintToFormatter ==
    /\ pc = "print"
    /\ cmd' = [cmd EXCEPT !.stdin = PrintLines(g, flags)]
    /\ pc' = "start"
    /\ UNCHANGED <<flags, fs, destWriter, written, exitCode, diag, g, idx>>

\* main, lines 607-609: cmd.Start may fail (goimports is not installed).
StartFormatter ==
    /\ pc = "start"
    /\ \E ok \in BOOLEAN :
         IF ok
         THEN pc' = "wait" /\ UNCHANGED <<exitCode, diag>>
         ELSE Fatal("Failed to start format command")
    /\ UNCHANGED <<flags, fs, destWriter, written, g, idx, cmd>>

\* main, lines 611-619: cmd.Wait; goimports either exits non-zero or leaves
\* the formatted text on its stdout.
WaitFormatter ==
    /\ pc = "wait"
    /\ \E ok \in BOOLEAN :
         IF ok
         THEN /\ cmd' = [cmd EXCEPT !.stdout = <<"goimports", cmd.stdin>>]
              /\ pc' = "write"
              /\ UNCHANGED <<exitCode, diag>>
         ELSE /\ Fatal("Command to format code failed")
              /\ UNCHANGED cmd
    /\ UNCHANGED <<flags, fs, destWriter, written, g, idx>>

\* main, line 621 and the return: the result is printed to the destination
\* and main returns.
WriteDest ==
    /\ pc = "write"
    /\ written' = cmd.stdout
    /\ fs' = IF destWriter = "stdout" THEN fs
             ELSE [fs EXCEPT ![destWriter] = "written"]
    /\ pc' = "exited"
    /\ exitCode' = 0
    /\ UNCHANGED <<flags, destWriter, diag, g, idx, cmd>>

\* =====================================================================
\* Reading the emitted text back
\* =====================================================================
\* generateWrapperCode has returned.
Generated ==
    \/ pc \in {"print", "start", "wait", "write"}
    \/ (pc = "exited" /\ g.structName # "")

DeclaredNames(iface) == {iface.methods[i].name : i \in 1..Len(iface.methods)}

\* The method of the contract with this name (method names are unique).
MethodNamed(iface, n) ==
    CHOOSE m \in {iface.methods[i] : i \in 1..Len(iface.methods)} : m.name = n

\* The lines of each kind.
IsAliasLine(l)   == Len(l) >= 3 /\ l[1] = "type" /\ l[3] = "func"
IsFieldLine(l)   == Len(l) >= 2 /\ l[2] = "func"
IsWrappedLine(l) == Len(l) >= 1 /\ l[1] = "wrapped"
IsFuncLine(l)    == Len(l) >= 1 /\ l[1] = "func"

AliasLines(gen) == SelectSeq(gen.handlerFuncTypes, IsAliasLine)
FieldLines(gen) == SelectSeq(gen.middlewareStruct, IsFieldLine)
FuncLines(gen)  == SelectSeq(gen.interfaceMethods, IsFuncLine)

\* The first position at or after `from` of token tok in line l, 0 if none.
RECURSIVE IndexFrom(_, _, _)
IndexFrom(l, tok, from) ==
    IF from > Len(l) THEN 0
    ELSE IF l[from] = tok THEN from
    ELSE IndexFrom(l, tok, from + 1)

\* The k-th method body (k from 1): the lines from its func line on.
BodyOf(gen, k) ==
    SubSeq(gen.interfaceMethods, (k - 1) * MethodFormatLines + 1, k * MethodFormatLines)

\* Of a func line: the tokens between the parentheses of the parameter list,
\* and those between the closing parenthesis and the opening brace.
HeaderParams(h) == SubSeq(h, 9, IndexFrom(h, ")", 9) - 1)
HeaderReturn(h) == SubSeq(h, IndexFrom(h, ")", 9) + 1, Len(h) - 1)

\* Of a call line "fun ( args )" or "return fun ( args )": the arguments.
CallArgs(l) == SubSeq(l, IndexFrom(l, "(", 1) + 1, Len(l) - 1)

\* The types of a tuple written as "[name] type, [name] type, ...": stride 3
\* with names (name, type, separator), stride 2 without.
TupleTypes(toks, stride) ==
    [j \in 1..(IF Len(toks) = 0 THEN 0 ELSE (Len(toks) + 1) \div stride) |->
        toks[stride * (j - 1) + (stride - 1)]]

\* The parameter types and the result types a func line declares.
HeaderParamTypes(h) == TupleTypes(HeaderParams(h), 3)
HeaderReturnTypes(h) ==
    LET rt == HeaderReturn(h)
    IN IF Len(rt) <= 1 THEN rt
       ELSE TupleTypes(SubSeq(rt, 2, Len(rt) - 1), 2)

\* The parameter types and the result types an alias line declares; sig tells
\* whether the source named the parameters and the results.
AliasParamTypes(l, sig) ==
    TupleTypes(SubSeq(l, 5, IndexFrom(l, ")", 5) - 1),
               IF Len(sig.params) > 0 /\ sig.params[1].name # "" THEN 3 ELSE 2)
AliasReturnTypes(l, sig) ==
    LET rt == SubSeq(l, IndexFrom(l, ")", 5) + 1, Len(l))
    IN IF Len(rt) <= 1 THEN rt
       ELSE TupleTypes(SubSeq(rt, 2, Len(rt) - 1),
                       IF sig.results[1].name # "" THEN 3 ELSE 2)

\* =====================================================================
\* The generated code at run time
\* =====================================================================
\* The program that uses the generated file: it builds a wrapper value, wraps
\* delegates with Wrap<I> and calls methods on what it gets.  Each step reads
\* the statement it executes from the text in g, the way the compiler would.
VARIABLES
    callerVal,   \* the caller's <I>Middleware value
    heap,        \* the wrapper instances the caller holds a reference to
    frame,       \* the method call in progress
    trace,       \* what the call in progress did: override applications, handler
                 \* invocations, calls that reached a delegate
    ret,         \* what the last call returned
    streak,      \* the calls in a row of one method on one instance, and the
                 \* override applications they made
    made         \* how the caller got each instance: the Wrap<I> call and its
                 \* arguments, or a literal

rtVars == <<callerVal, heap, frame, trace, ret, streak, made>>

MaxWraps == 2    \* wrapper instances the caller creates
MaxCalls == 3    \* calls in a row of one method on one instance

Delegates == {"d1", "d2"}
Overrides == {"log", "stub"}

\* Function values.  A handler is nil, the method value recv.name of a
\* delegate, or the closure an override returned around handler next.
NoHandler == [kind |-> "nil", recv |-> "", name |-> "", by |-> "", next |-> <<>>]
MethodValue(recv, name) ==
    [kind |-> "method", recv |-> recv, name |-> name, by |-> "", next |-> <<>>]
Closure(by, next) ==
    [kind |-> "closure", recv |-> "", name |-> "", by |-> by, next |-> <<next>>]

\* The overrides of the model, user code in the way of the README's barLogger:
\* "log" returns a handler that calls next once and returns what it returned,
\* "stub" returns a handler that answers by itself.
ApplyOverride(ov, h) == Closure(ov, h)

\* The values a call of handler h returns, r of them.
RECURSIVE Result(_, _, _)
Result(h, args, r) ==
    CASE h.kind = "method" ->
            [j \in 1..r |-> [from |-> h.recv, name |-> h.name, args |-> args, pos |-> j]]
      [] h.kind = "closure" /\ h.by = "log" -> Result(h.next[1], args, r)
      [] OTHER ->
            [j \in 1..r |-> [from |-> "stub", name |-> "", args |-> <<>>, pos |-> j]]

Event(ev, name, by, h, args) ==
    [ev |-> ev, name |-> name, by |-> by, h |-> h, args |-> args]

\* The calls a call of handler h makes to a delegate's method.
RECURSIVE DelegateCalls(_, _)
DelegateCalls(h, args) ==
    CASE h.kind = "method" -> <<Event("delegate", h.name, h.recv, NoHandler, args)>>
      [] h.kind = "closure" /\ h.by = "log" -> DelegateCalls(h.next[1], args)
      [] OTHER -> <<>>

\* The override fields of the generated struct, by name.
FieldNames(gen) == {FieldLines(gen)[i][1] : i \in 1..Len(FieldLines(gen))}

\* A field of a wrapper value, by the name the text uses.
FieldOf(w, name) == IF name = "wrapped" THEN w.wrapped ELSE w.fields[name]

\* The contracts of the run-time model: signatures of every parameter and
\* result count, not variadic (for a variadic method see C8).
RtShapes == 0..((MaxParams + 1) * (MaxResults + 1) - 1)
RtInterfaces ==
    { MakeInterface(names, s, "none") :
        names \in {<<"Request", "Init">>, <<"Bar">>}, s \in RtShapes }

\* The argument vectors of a call with k parameters.
ArgVectors(k) == { [j \in 1..k |-> base \o ToString(j)] : base \in {"u", "v"} }

\* (variant: the assignment of the delegate forgotten)
WrapResult_Unbound(gen, original, wrapperValue) ==
    [wrapperValue EXCEPT !.origin = "Wrap"]

\* Wrap<I>(toWrap, wrapper), lines 686-689: the parameters are the 4th and 7th
\* token of the func line; the assignment sets a field of the local copy of
\* the wrapper value; the address of that copy is returned.
WrapResult(gen, original, wrapperValue) ==
    LET head   == gen.wrapFunction[2]
        assign == gen.wrapFunction[3]
        return == gen.wrapFunction[4]
        locals == (head[4] :> [wrapped |-> original, fields |-> <<>>, origin |-> ""])
                  @@ (head[7] :> wrapperValue)
        after  == [locals EXCEPT
                     ![assign[1]] =
                        IF assign[3] = "wrapped"
                        THEN [@ EXCEPT !.wrapped = locals[assign[5]].wrapped]
                        ELSE @]
    IN [after[return[3]] EXCEPT !.origin = "Wrap"]

\* (variant: the parameter is a pointer to the caller's value)
WrapCall_ByReference(gen, original, wrapperValue) ==
    [result |-> WrapResult(gen, original, wrapperValue),
     caller |-> [WrapResult(gen, original, wrapperValue) EXCEPT !.origin = ""]]

\* The call Wrap<I>(original, wrapperValue), line 686: `wrapper` is declared
\* with the struct type itself, so the callee works on a copy and the
\* variable the caller passed keeps its value.
WrapCall(gen, original, wrapperValue) ==
    [result |-> WrapResult(gen, original, wrapperValue),
     caller |-> wrapperValue]

RtWrap ==
    /\ frame.pc \in {"idle", "returned"}
    /\ Len(heap) < MaxWraps
    /\ \E original \in Delegates :
         LET c == WrapCall(g, original, callerVal)
         IN /\ heap' = Append(heap, c.result)
            /\ callerVal' = c.caller
            /\ made' = Append(made, [by |-> "Wrap", toWrap |-> original,
                                     wrapper |-> callerVal])
    /\ UNCHANGED <<frame, trace, ret, streak>>

\* The caller uses its wrapper value directly, as &callerVal, without Wrap<I>.
RtLiteral ==
    /\ frame.pc \in {"idle", "returned"}
    /\ Len(heap) < MaxWraps
    /\ heap' = Append(heap, [callerVal EXCEPT !.origin = "literal"])
    /\ made' = Append(made, [by |-> "literal", toWrap |-> "nil", wrapper |-> callerVal])
    /\ UNCHANGED <<callerVal, frame, trace, ret, streak>>

\* The caller calls method i of the generated struct on an instance.
RtCall ==
    /\ frame.pc \in {"idle", "returned"}
    /\ \E self \in 1..Len(heap), i \in 1..Len(FuncLines(g)) :
         \E args \in ArgVectors(Len(HeaderParamTypes(FuncLines(g)[i]))) :
            /\ frame' = [pc |-> "bind", self |-> self, body |-> i,
                         method |-> FuncLines(g)[i][7], args |-> args,
                         fun |-> NoHandler]
            /\ IF streak.self = self /\ streak.method = FuncLines(g)[i][7]
               THEN /\ streak.calls < MaxCalls
                    /\ streak' = [streak EXCEPT !.calls = @ + 1]
               ELSE streak' = [self |-> self, method |-> FuncLines(g)[i][7],
                               calls |-> 1, applied |-> 0]
    /\ trace' = <<>>
    /\ ret' = <<>>
    /\ UNCHANGED <<callerVal, heap, made>>

\* Line 728 / 747: fun := recv.wrapped.Method.  The method value of a nil
\* interface panics.
RtBind ==
    /\ frame.pc = "bind"
    /\ LET l == BodyOf(g, frame.body)[2]
           d == FieldOf(heap[frame.self], l[5])
       IN IF d = "nil"
          THEN frame' = [frame EXCEPT !.pc = "panic"]
          ELSE frame' = [frame EXCEPT !.pc = "check", !.fun = MethodValue(d, l[7])]
    /\ UNCHANGED <<callerVal, heap, trace, ret, streak, made>>

\* (variant: the override applied on the first call only, later calls skip it)
RtCheck_FirstCallOnly ==
    /\ frame.pc = "check"
    /\ LET cond  == BodyOf(g, frame.body)[3]
           apply == BodyOf(g, frame.body)[4]
       IN IF FieldOf(heap[frame.self], cond[4]) # "nil" /\ streak.applied = 0
          THEN /\ frame' = [frame EXCEPT
                              !.pc = "invoke",
                              !.fun = ApplyOverride(FieldOf(heap[frame.self], apply[5]),
                                                    frame.fun)]
               /\ trace' = Append(trace,
                              Event("apply", apply[5],
                                    FieldOf(heap[frame.self], apply[5]), frame.fun, <<>>))
               /\ streak' = [streak EXCEPT !.applied = @ + 1]
          ELSE /\ frame' = [frame EXCEPT !.pc = "invoke"]
               /\ UNCHANGED <<trace, streak>>
    /\ UNCHANGED <<callerVal, heap, ret, made>>

\* Lines 729-731 / 748-750: if recv.Field != nil { fun = recv.Field(fun) }.
RtCheck ==
    /\ frame.pc = "check"
    /\ LET cond  == BodyOf(g, frame.body)[3]
           apply == BodyOf(g, frame.body)[4]
       IN IF FieldOf(heap[frame.self], cond[4]) # "nil"
          THEN /\ frame' = [frame EXCEPT
                              !.pc = "invoke",
                              !.fun = ApplyOverride(FieldOf(heap[frame.self], apply[5]),
                                                    frame.fun)]
               /\ trace' = Append(trace,
                              Event("apply", apply[5],
                                    FieldOf(heap[frame.self], apply[5]), frame.fun, <<>>))
               /\ streak' = [streak EXCEPT !.applied = @ + 1]
          ELSE /\ frame' = [frame EXCEPT !.pc = "invoke"]
               /\ UNCHANGED <<trace, streak>>
    /\ UNCHANGED <<callerVal, heap, ret, made>>

\* The value of an argument token: that of the parameter of this name.
ArgValue(h, args, tok) ==
    LET hp == HeaderParams(h)
    IN args[CHOOSE j \in 1..Len(args) : hp[3 * j - 2] = tok]

\* Line 732 / 751: [return] fun(arguments).
RtInvoke ==
    /\ frame.pc = "invoke"
    /\ LET body  == BodyOf(g, frame.body)
           call  == body[6]
           toks  == CallArgs(call)
           n     == IF Len(toks) = 0 THEN 0 ELSE (Len(toks) + 1) \div 2
           actual == [j \in 1..n |-> ArgValue(body[1], frame.args, toks[2 * j - 1])]
           r     == Len(HeaderReturnTypes(body[1]))
       IN /\ trace' = Append(trace, Event("invoke", "", "", frame.fun, actual))
                      \o DelegateCalls(frame.fun, actual)
          /\ ret' = IF call[1] = "return" THEN Result(frame.fun, actual, r) ELSE <<>>
    /\ frame' = [frame EXCEPT !.pc = "returned"]
    /\ UNCHANGED <<callerVal, heap, streak, made>>

IdleFrame ==
    [pc |-> "idle", self |-> 0, body |-> 0, method |-> "", args |-> <<>>,
     fun |-> NoHandler]

NoStreak == [self |-> 0, method |-> "", calls |-> 0, applied |-> 0]

\* No generated code runs while the command does.
RtIdle ==
    /\ callerVal = [wrapped |-> "nil", fields |-> <<>>, origin |-> ""]
    /\ heap = <<>>
    /\ frame = IdleFrame
    /\ trace = <<>>
    /\ ret = <<>>
    /\ streak = NoStreak
    /\ made = <<>>

\* The program starts with the file a successful run of the command left, and
\* with a wrapper value whose override fields the caller set or left unset.
RtInit ==
    /\ pc = "exited"
    /\ flags = [typeName |-> TargetName, output |-> "", debug |-> FALSE]
    /\ fs = [f \in Files |-> IF f = OutputFlag THEN "absent" ELSE "written"]
    /\ destWriter = ToLower(TargetName) \o "_middleware.go"
    /\ exitCode = 0
    /\ diag = ""
    /\ \E iFace \in RtInterfaces :
         /\ g = generateWrapperCode(
                   [ZeroGenerator EXCEPT !.targetName = TargetName,
                                         !.p = InvokingPkg, !.target = iFace])
         /\ idx = NumMethods(iFace)
    /\ cmd = [stdin |-> PrintLines(g, flags), stdout |-> <<"goimports", PrintLines(g, flags)>>]
    /\ written = cmd.stdout
    /\ callerVal \in [wrapped : {"nil"},
                      fields : [FieldNames(g) -> Overrides \cup {"nil"}],
                      origin : {""}]
    /\ heap = <<>>
    /\ frame = IdleFrame
    /\ trace = <<>>
    /\ ret = <<>>
    /\ streak = NoStreak
    /\ made = <<>>

vars == <<genVars, rtVars>>

Init == GenInit /\ RtIdle

Next ==
    \/ CheckFlags /\ UNCHANGED rtVars
    \/ OpenDest /\ UNCHANGED rtVars
    \/ LoadPackages /\ UNCHANGED rtVars
    \/ LookupTarget /\ UNCHANGED rtVars
    \/ GenerateHead /\ UNCHANGED rtVars
    \/ GenerateInterfaceMethod /\ UNCHANGED rtVars
    \/ GenerateFoot /\ UNCHANGED rtVars
    \/ PrintToFormatter /\ UNCHANGED rtVars
    \/ StartFormatter /\ UNCHANGED rtVars
    \/ WaitFormatter /\ UNCHANGED rtVars
    \/ WriteDest /\ UNCHANGED rtVars

RtStep ==
    \/ RtWrap /\ UNCHANGED genVars
    \/ RtLiteral /\ UNCHANGED genVars
    \/ RtCall /\ UNCHANGED genVars
    \/ RtBind /\ UNCHANGED genVars
    \/ RtCheck /\ UNCHANGED genVars
    \/ RtInvoke /\ UNCHANGED genVars

Spec == Init /\ [][Next]_vars

RtSpec == RtInit /\ [][RtStep]_vars

\* =====================================================================
\* Properties of the command
\* =====================================================================
\* C1 (as claimed): a run that ends in an error has not created, opened or
\* truncated any output file.
C1_NoFileTouchedOnError ==
    exitCode = 1 => \A f \in Files : fs[f] \in {"absent", "old"}

\* C2 (as claimed): init accepts only an interface with at least one method;
\* for an interface without methods no generation step runs.
C2_ZeroMethodsRejected ==
    g.target # NilInterface => NumMethods(g.target) >= 1

\* C3: after generateWrapperCode the alias section holds exactly N aliases,
\* the struct N override fields and one wrapped field, the method section N
\* bodies, and position by position the alias, the field and the body name
\* the same method of the contract, each method once.
C3_SectionsAgree ==
    Generated =>
        LET N  == NumMethods(g.target)
            al == AliasLines(g)
            fl == FieldLines(g)
            fn == FuncLines(g)
        IN /\ Len(al) = N /\ Len(g.handlerFuncTypes) = N
           /\ Len(fl) = N
           /\ Len(SelectSeq(g.middlewareStruct, IsWrappedLine)) = 1
           /\ Len(fn) = N /\ Len(g.interfaceMethods) = N * MethodFormatLines
           /\ \A i \in 1..N :
                \E n \in DeclaredNames(g.target) :
                    /\ al[i][2] = n \o "Handler"
                    /\ fl[i][1] = n \o "Middleware"
                    /\ fn[i][7] = n
                    /\ BodyOf(g, i)[1] = fn[i]
           /\ \A i, j \in 1..N : i # j => fn[i][7] # fn[j][7]

C3_Witness ==
    /\ pc = "exited" /\ exitCode = 0
    /\ NumMethods(g.target) = MaxMethods
    /\ Len(AliasLines(g)) = MaxMethods

C5_ReturnTypeShape ==
    Generated =>
        \A i \in 1..Len(FuncLines(g)) :
            LET h  == FuncLines(g)[i]
                m  == MethodNamed(g.target, h[7])
                r  == Len(m.sig.results)
                rt == HeaderReturn(h)
            IN /\ r = 0 => rt = <<>>
               /\ r = 1 => rt = <<TypeString(g.p, m.sig.results[1].type)>>
               /\ r >= 2 =>
                    /\ Len(rt) = 2 * r + 1
                    /\ rt[1] = "(" /\ rt[Len(rt)] = ")"
                    /\ \A j \in 1..r :
                         rt[2 * j] = TypeString(g.p, m.sig.results[j].type)
                    /\ \A j \in 1..(r - 1) : rt[2 * j + 1] = ", "

C5_Witness ==
    /\ Generated
    /\ \E i \in 1..Len(FuncLines(g)) :
         /\ Len(MethodNamed(g.target, FuncLines(g)[i][7]).sig.results) >= 2
         /\ HeaderReturn(FuncLines(g)[i])[1] = "("
    /\ \E i \in 1..Len(FuncLines(g)) :
         /\ Len(MethodNamed(g.target, FuncLines(g)[i][7]).sig.results) = 1
         /\ Len(HeaderReturn(FuncLines(g)[i])) = 1

\* C6: a generated method of k parameters and r results declares a0..a(k-1)
\* with the parameter types in declared order, calls the handler with exactly
\* a0, ..., a(k-1) (nothing, and no trailing separator, for k = 0), and
\* returns the call's result if and only if r >= 1.
C6_ParamsAndCall ==
    Generated =>
        \A i \in 1..NumMethods(g.target) :
            LET body  == BodyOf(g, i)
                h     == body[1]
                m     == MethodNamed(g.target, h[7])
                k     == Len(m.sig.params)
                r     == Len(m.sig.results)
                hp    == HeaderParams(h)
                call  == body[6]
                names == [j \in 1..k |-> "a" \o ToString(j - 1)]
            IN /\ Len(hp) = (IF k = 0 THEN 0 ELSE 3 * k - 1)
               /\ \A j \in 1..k :
                    /\ hp[3 * j - 2] = names[j]
                    /\ hp[3 * j - 1] = TypeString(g.p, m.sig.params[j].type)
               /\ \A j \in 1..(k - 1) : hp[3 * j] = ", "
               /\ CallArgs(call) = Join(names, ", ")
               /\ call[Len(call)] = ")"
               /\ (r >= 1) <=> (call[1] = "return")
               /\ (r >= 1) => SubSeq(call, 2, 3) = <<"fun", "(">>
               /\ (r = 0) => SubSeq(call, 1, 2) = <<"fun", "(">>
               /\ \A n \in 1..Len(body) :
                    (Len(body[n]) > 0 /\ body[n][1] = "return") => n = 6

C6_Witness ==
    /\ Generated
    /\ \E i \in 1..NumMethods(g.target) :
         /\ Len(MethodNamed(g.target, BodyOf(g, i)[1][7]).sig.params) = 0
         /\ Len(MethodNamed(g.target, BodyOf(g, i)[1][7]).sig.results) = 0
         /\ BodyOf(g, i)[6] = <<"fun", "(", ")">>
    /\ \E i \in 1..NumMethods(g.target) :
         /\ Len(MethodNamed(g.target, BodyOf(g, i)[1][7]).sig.params) = MaxParams
         /\ BodyOf(g, i)[6][1] = "return"

\* The rendering the qualification rule asks for: a named type from the
\* invoking package bare, one from another package behind that package's
\* short name, the constituents of a composite type by the same rule.
RECURSIVE Qualified(_, _)
Qualified(home, t) ==
    CASE t.k = "basic" -> t.name
      [] t.k = "ptr"   -> "*" \o Qualified(home, t.args[1])
      [] t.k = "slice" -> "[]" \o Qualified(home, t.args[1])
      [] t.k = "named" ->
            (IF t.pkg = home THEN "" ELSE t.pkg.name \o ".")
            \o t.name
            \o (IF Len(t.args) = 0 THEN ""
                ELSE "[" \o JoinStr([i \in 1..Len(t.args) |->
                                        Qualified(home, t.args[i])], ",") \o "]")

\* C7: every type rendered in a parameter, a result or a handler alias is
\* qualified by that rule, composite types constituent by constituent.
C7_Qualification ==
    Generated =>
        \A i \in 1..NumMethods(g.target) :
            LET h   == FuncLines(g)[i]
                a   == AliasLines(g)[i]
                sig == MethodNamed(g.target, h[7]).sig
                k   == Len(sig.params)
                r   == Len(sig.results)
            IN /\ HeaderParamTypes(h) =
                    [j \in 1..k |-> Qualified(InvokingPkg, sig.params[j].type)]
               /\ HeaderReturnTypes(h) =
                    [j \in 1..r |-> Qualified(InvokingPkg, sig.results[j].type)]
               /\ AliasParamTypes(a, sig) =
                    [j \in 1..k |->
                        IF sig.variadic /\ j = k
                        THEN "..." \o Qualified(InvokingPkg, sig.params[j].type.args[1])
                        ELSE Qualified(InvokingPkg, sig.params[j].type)]
               /\ AliasReturnTypes(a, sig) =
                    [j \in 1..r |-> Qualified(InvokingPkg, sig.results[j].type)]

C7_Witness ==
    /\ Generated
    /\ \E i \in 1..NumMethods(g.target) :
         LET pt == HeaderParamTypes(FuncLines(g)[i])
         IN /\ Len(pt) = 2
            /\ pt[1] = "*app.Quz"
            /\ pt[2] = "[]*Baz"
            /\ HeaderReturnTypes(FuncLines(g)[i]) = <<"store.Set[Baz,io.Reader]">>

\* C8 (as claimed): the handler alias of a method has, position by position,
\* the parameter types and result types of the generated method of that name.
C8_ShapesAgree ==
    Generated =>
        \A i \in 1..NumMethods(g.target) :
            LET h   == FuncLines(g)[i]
                a   == AliasLines(g)[i]
                sig == MethodNamed(g.target, h[7]).sig
            IN /\ AliasParamTypes(a, sig) = HeaderParamTypes(h)
               /\ AliasReturnTypes(a, sig) = HeaderReturnTypes(h)

\* =====================================================================
\* Properties of the generated code
\* =====================================================================
IsApply(e)    == e.ev = "apply"
IsInvoke(e)   == e.ev = "invoke"
IsDelegate(e) == e.ev = "delegate"

\* A call has returned, on an instance that Wrap<I> made.
CompletedOnWrapped ==
    /\ frame.pc = "returned"
    /\ heap[frame.self].origin = "Wrap"

\* The override field of the called method, and its result count.
CalledOverride == heap[frame.self].fields[frame.method \o "Middleware"]
CalledResults  == Len(MethodNamed(g.target, frame.method).sig.results)

\* C9: on an instance from Wrap<I>, a call of a method whose override field
\* is unset applies no override at all, calls the delegate's method of that
\* name exactly once with the call's arguments and returns what it returned;
\* such a call does not panic.
C9_UnsetDelegates ==
    /\ (frame.pc = "panic") => heap[frame.self].origin # "Wrap"
    /\ (CompletedOnWrapped /\ CalledOverride = "nil") =>
          LET d == heap[frame.self].wrapped
          IN /\ d \in Delegates
             /\ SelectSeq(trace, IsApply) = <<>>
             /\ SelectSeq(trace, IsInvoke) =
                  <<Event("invoke", "", "", MethodValue(d, frame.method), frame.args)>>
             /\ SelectSeq(trace, IsDelegate) =
                  <<Event("delegate", frame.method, d, NoHandler, frame.args)>>
             /\ ret = [j \in 1..CalledResults |->
                         [from |-> d, name |-> frame.method,
                          args |-> frame.args, pos |-> j]]

C9_Witness ==
    /\ CompletedOnWrapped
    /\ CalledOverride = "nil"
    /\ \E f \in DOMAIN heap[frame.self].fields : heap[frame.self].fields[f] # "nil"
    /\ CalledResults >= 1
    /\ Len(frame.args) = MaxParams
    /\ Len(ret) = CalledResults

\* C10: on an instance from Wrap<I>, a call of a method whose override field
\* is set applies that override once, to the delegate's own method of that
\* name, then calls the handler it returned exactly once with the call's
\* arguments in declared order, and returns what that handler returned.
C10_SetApplies ==
    (CompletedOnWrapped /\ CalledOverride # "nil") =>
        LET d   == heap[frame.self].wrapped
            def == MethodValue(d, frame.method)
            h   == ApplyOverride(CalledOverride, def)
        IN /\ d \in Delegates
           /\ Len(trace) >= 2
           /\ trace[1] = Event("apply", frame.method \o "Middleware",
                               CalledOverride, def, <<>>)
           /\ trace[2] = Event("invoke", "", "", h, frame.args)
           /\ Len(SelectSeq(trace, IsApply)) = 1
           /\ Len(SelectSeq(trace, IsInvoke)) = 1
           /\ ret = Result(h, frame.args, CalledResults)

C10_Witness ==
    /\ CompletedOnWrapped
    /\ CalledOverride = "log"
    /\ \A f \in DOMAIN heap[frame.self].fields : heap[frame.self].fields[f] # "nil"
    /\ Cardinality(DOMAIN heap[frame.self].fields) = 2
    /\ CalledResults = MaxResults
    /\ Len(frame.args) = MaxParams
    /\ Len(ret) = CalledResults

\* C11 (as claimed): over two or more calls in a row of a method on one
\* instance from Wrap<I> whose override field for it is set, the override is
\* applied once in all.
C11_AppliedOnceOverCalls ==
    (CompletedOnWrapped /\ CalledOverride # "nil" /\ streak.calls >= 2) =>
        streak.applied = 1

\* C11 (amended): the override is applied once per call.  Over k calls in a
\* row of a method on one instance from Wrap<I> whose override field for it
\* is set there are k applications: each call makes exactly one, before it
\* invokes the handler, and invoking the handler makes none.  With the field
\* unset there is none.
C11_AppliedOncePerCall ==
    (frame.pc # "idle" /\ frame.pc # "panic" /\ heap[frame.self].origin = "Wrap") =>
        /\ streak.self = frame.self
        /\ streak.method = frame.method
        /\ streak.calls >= 1
        /\ IF CalledOverride = "nil"
           THEN streak.applied = 0
           ELSE /\ streak.applied =
                     IF frame.pc \in {"invoke", "returned"}
                     THEN streak.calls ELSE streak.calls - 1
                /\ Len(SelectSeq(trace, IsApply)) =
                     IF frame.pc \in {"invoke", "returned"} THEN 1 ELSE 0
                /\ (frame.pc = "returned") => (IsApply(trace[1]) /\ IsInvoke(trace[2]))

C11_Witness ==
    /\ CompletedOnWrapped
    /\ CalledOverride # "nil"
    /\ streak.calls = MaxCalls
    /\ streak.applied = MaxCalls
    /\ Len(heap) = MaxWraps

\* C12: every instance Wrap<I>(original, wrapperValue) returned has original
\* as its delegate field and the override fields of wrapperValue, and Wrap<I>
\* is declared to return the contract type and returns the address of the
\* wrapper; an instance the caller built as a literal has its delegate field
\* unset; both stay so whatever methods are called, and the only assignments
\* in the method bodies are to the local fun, so nothing but Wrap<I> sets the
\* delegate field.
C12_WrapBindsDelegate ==
    /\ Len(made) = Len(heap)
    /\ g.wrapFunction[2][10] = g.targetName
    /\ SubSeq(g.wrapFunction[4], 1, 2) = <<"return", "&">>
    /\ \A n \in 1..Len(g.interfaceMethods) :
         LET l == g.interfaceMethods[n]
         IN IndexFrom(l, "=", 1) # 0 => SubSeq(l, 1, 2) = <<"fun", "=">>
    /\ \A i \in 1..Len(heap) :
         IF made[i].by = "Wrap"
         THEN /\ made[i].toWrap \in Delegates
              /\ heap[i].wrapped = made[i].toWrap
              /\ heap[i].fields = made[i].wrapper.fields
         ELSE /\ heap[i].wrapped = "nil"
              /\ heap[i].fields = made[i].wrapper.fields

\* A call has returned on a wrapped instance while a literal one exists too.
C12_Witness ==
    /\ frame.pc = "returned"
    /\ made[frame.self].by = "Wrap"
    /\ \E i \in 1..Len(heap) : made[i].by = "literal"
    /\ \E f \in DOMAIN heap[frame.self].fields : heap[frame.self].fields[f] # "nil"
    /\ streak.calls >= 2

\* =====================================================================
\* Properties of the printed text
\* =====================================================================
\* Generator.print has written to the formatter.
Printed == cmd.stdin # <<>>

MinOf(S) == CHOOSE n \in S : \A m \in S : n <= m
MaxOf(S) == CHOOSE n \in S : \A m \in S : n >= m

\* The lines of the printed text that open a block, by kind.
HeaderAt   == {n \in 1..Len(cmd.stdin) :
                 LET l == cmd.stdin[n]
                 IN Len(l) >= 2 /\ l[1] = "//" /\ l[2] = "Code generated by"}
PackageAt  == {n \in 1..Len(cmd.stdin) :
                 LET l == cmd.stdin[n] IN Len(l) >= 1 /\ l[1] = "package"}
WrapFuncAt == {n \in 1..Len(cmd.stdin) :
                 LET l == cmd.stdin[n]
                 IN Len(l) >= 2 /\ l[1] = "func" /\ l[2] = "Wrap" \o g.targetName}
StructAt   == {n \in 1..Len(cmd.stdin) :
                 LET l == cmd.stdin[n]
                 IN Len(l) >= 3 /\ l[1] = "type" /\ l[3] = "struct"}
AliasAt    == {n \in 1..Len(cmd.stdin) : IsAliasLine(cmd.stdin[n])}
MethodAt   == {n \in 1..Len(cmd.stdin) :
                 LET l == cmd.stdin[n]
                 IN Len(l) >= 2 /\ l[1] = "func" /\ l[2] = "("}
CloseAt    == {n \in 1..Len(cmd.stdin) : cmd.stdin[n] = <<"}">>}

\* Where the blocks of the printed text are: the first line of the header,
\* the package declaration, the constructor and the struct (these two start
\* at their doc comment and end at their closing brace), the alias lines, the
\* func lines of the bodies and the last closing brace.
Layout ==
    LET wrap   == MinOf(WrapFuncAt)
        struct == MinOf(StructAt)
        close  == CloseAt
    IN [header |-> MinOf(HeaderAt), package |-> MinOf(PackageAt),
        ctorFirst |-> wrap - 1,
        ctorLast |-> MinOf({n \in close : n > wrap}),
        structFirst |-> struct - 1,
        structLast |-> MinOf({n \in close : n > struct}),
        alias |-> AliasAt, method |-> MethodAt, lastClose |-> MaxOf(close)]

\* Block A ends at line a, block B starts at line b: one blank line between.
BlankBetween(a, b) == b = a + 2 /\ cmd.stdin[a + 1] = <<>>

\* Each block is there once, with one alias and one body per method.
EachBlockOnce ==
    /\ Cardinality(HeaderAt) = 1
    /\ Cardinality(PackageAt) = 1
    /\ Cardinality(WrapFuncAt) = 1
    /\ Cardinality(StructAt) = 1
    /\ Cardinality(AliasAt) = NumMethods(g.target)
    /\ Cardinality(MethodAt) = NumMethods(g.target)

\* The header names the command line, the package is the invoking one.
HeaderAndPackage(L) ==
    /\ L.header = 1
    /\ cmd.stdin[L.header][3] =
          "\"middlewarer " \o JoinStr(Args(flags), " ") \o "\";"
    /\ cmd.stdin[L.package] = <<"package", g.p.name>>

\* From the constructor on: constructor, struct, aliases, bodies, a blank
\* line after each; without methods the last two are empty.
SectionsInOrder(L) ==
    /\ BlankBetween(L.ctorLast, L.structFirst)
    /\ IF NumMethods(g.target) = 0
       THEN \A n \in (L.structLast + 1)..Len(cmd.stdin) : cmd.stdin[n] = <<>>
       ELSE LET a1 == MinOf(L.alias)
                a2 == MaxOf(L.alias)
                m2 == MaxOf(L.method)
            IN /\ BlankBetween(L.structLast, a1)
               /\ L.alias = a1..a2
               /\ BlankBetween(a2, MinOf(L.method))
               /\ L.lastClose > m2
               /\ \A n \in (L.lastClose + 1)..Len(cmd.stdin) : cmd.stdin[n] = <<>>
               /\ Len(cmd.stdin) > L.lastClose

\* C13 (as claimed): the printed text is the header comment, the package
\* declaration, the constructor, the wrapper type, the handler aliases and the
\* method bodies in this order, each once, with a blank line between each
\* block and the next.
C13_BlankBetweenAllBlocks ==
    Printed =>
        /\ EachBlockOnce
        /\ LET L == Layout
           IN /\ HeaderAndPackage(L)
              /\ BlankBetween(L.header, L.package)
              /\ BlankBetween(L.package, L.ctorFirst)
              /\ SectionsInOrder(L)

\* C13 (amended): the same order, each block once, with a blank line between
\* the package declaration and the constructor and after each of the four
\* sections; the header comment is the first line and the package declaration
\* the line right after it, with no blank line between the two.
C13_PrintOrder ==
    Printed =>
        /\ EachBlockOnce
        /\ LET L == Layout
           IN /\ HeaderAndPackage(L)
              /\ L.package = L.header + 1
              /\ BlankBetween(L.package, L.ctorFirst)
              /\ SectionsInOrder(L)

C13_Witness ==
    /\ pc = "exited"
    /\ exitCode = 0
    /\ Printed
    /\ written = <<"goimports", cmd.stdin>>
    /\ NumMethods(g.target) = MaxMethods
    /\ flags.output # ""

\* =====================================================================
\* The caller's value and the instances made from it
\* =====================================================================
\* C14: Wrap<I> works on a copy of the wrapper value.  Whatever Wrap<I> calls
\* were made, the caller's value is the one it passed to each of them and its
\* delegate field is still unset; every instance keeps the original it was
\* made with when later ones are made; and a call on an instance reaches the
\* original of that instance only, never that of another instance made from
\* the same value.
C14_WrapCopies ==
    /\ callerVal.wrapped = "nil"
    /\ callerVal.origin = ""
    /\ \A i \in 1..Len(made) : made[i].wrapper = callerVal
    /\ \A i \in 1..Len(heap) :
         made[i].by = "Wrap" => heap[i].wrapped = made[i].toWrap
    /\ (frame.pc \in {"check", "invoke", "returned"} /\ made[frame.self].by = "Wrap") =>
         /\ frame.fun.kind = "method" => frame.fun.recv = made[frame.self].toWrap
         /\ frame.fun.kind = "closure" =>
                frame.fun.next[1] = MethodValue(made[frame.self].toWrap, frame.method)
         /\ \A n \in 1..Len(trace) :
                IsDelegate(trace[n]) => trace[n].by = made[frame.self].toWrap

\* Two instances from the same value with different originals; the second
\* was made before this call on the first, which reached a delegate.
C14_Witness ==
    /\ frame.pc = "returned"
    /\ frame.self = 1
    /\ Len(heap) >= 2
    /\ made[1].by = "Wrap"
    /\ made[2].by = "Wrap"
    /\ made[1].toWrap # made[2].toWrap
    /\ made[1].wrapper = made[2].wrapper
    /\ \E n \in 1..Len(trace) : IsDelegate(trace[n])
    /\ CalledOverride = "log"

====
